---- MODULE Spec2Model ----
(***************************************************************************)
(* Bitcoin-maximalist rebalancing agent (sixthCow/tradecow, recall/).      *)
(*                                                                         *)
(* The model covers the token detector (token_detector.py), the portfolio  *)
(* analyzer and run_strategy (btc_agent.py), the conversion loop of the    *)
(* trading engine (trading_engine.py) and the policy (config.py).          *)
(*                                                                         *)
(* Numbers.  Python floats are modelled by exact rationals [n, d] in       *)
(* lowest terms with d > 0; money amounts and values are integers.         *)
(* Binary floating-point rounding is therefore outside the model.          *)
(*                                                                         *)
(* Strings.  Addresses and symbols are TLA+ strings; str.lower() on an     *)
(* address is the table LowerTable (an address without upper-case letters  *)
(* is its own lower-case form).  Chain hints are sequences of characters,  *)
(* so that lower() and the substring test are computed on them.            *)
(***************************************************************************)
EXTENDS Integers, Sequences, FiniteSets, TLC

VARIABLES
    pc,                     \* position of the running call
    portfolio,              \* "tokens" of the snapshot given to convert_to_wbtc
    idx,                    \* convert_to_wbtc: index of the holding the loop is at
    trades_executed,        \* convert_to_wbtc: trades_executed
    api_log,                \* requests execute_trade received, in order, with outcome
    updated_portfolio,      \* "tokens" of the snapshot the plan is computed from
    current_distribution,   \* result of analyze_chain_distribution (a dict)
    total_wbtc_value,       \* run_strategy: total_wbtc_value
    trades_needed,          \* result of calculate_rebalance_trades
    calls,                  \* the calls run_strategy has made to its collaborators, in order
    result,                 \* what run_strategy returns, <<>> before it returns
    det_address,            \* detect_token_and_chain: argument token_address
    det_hint,               \* detect_token_and_chain: argument chain_hint
    detected                \* detect_token_and_chain: the pair returned, <<>> before the call

vars == <<pc, portfolio, idx, trades_executed, api_log, updated_portfolio,
          current_distribution, total_wbtc_value, trades_needed, calls, result,
          det_address, det_hint, detected>>

-----------------------------------------------------------------------------
(* Rationals                                                               *)

Abs(x) == IF x < 0 THEN -x ELSE x

RECURSIVE Gcd(_, _)
Gcd(a, b) == IF b = 0 THEN a ELSE Gcd(b, a % b)

\* n/d in lowest terms, d > 0
Rat(n, d) ==
    LET s == IF d < 0 THEN -1 ELSE 1
        g == Gcd(Abs(n), Abs(d))
    IN  [n |-> (s * n) \div g, d |-> (s * d) \div g]

RatOfInt(i) == [n |-> i, d |-> 1]
RatSub(a, b) == Rat(a.n * b.d - b.n * a.d, a.d * b.d)
RatAdd(a, b) == Rat(a.n * b.d + b.n * a.d, a.d * b.d)

\* a * i truncated to a whole number
RatMulIntFloor(a, i) == RatOfInt((a.n * i) \div a.d)

RatMulInt(a, i) == Rat(a.n * i, a.d)
RatAbs(a) == [n |-> Abs(a.n), d |-> a.d]
RatGt(a, b) == a.n * b.d > b.n * a.d
RatLe(a, b) == a.n * b.d <= b.n * a.d

RECURSIVE RatSum(_)
RatSum(s) == IF s = <<>> THEN RatOfInt(0) ELSE RatAdd(Head(s), RatSum(Tail(s)))

-----------------------------------------------------------------------------
(* Python dict: a sequence of [k, v] pairs in insertion order, keys unique *)

DictKeys(d) == {d[i].k : i \in 1..Len(d)}

DictHas(d, key) == key \in DictKeys(d)

\* d.get(key, default)
DictGet(d, key, default) ==
    IF DictHas(d, key)
    THEN d[CHOOSE i \in 1..Len(d) : d[i].k = key].v
    ELSE default

\* d[key] = value
DictSet(d, key, value) ==
    IF DictHas(d, key)
    THEN [i \in 1..Len(d) |-> IF d[i].k = key THEN [k |-> key, v |-> value] ELSE d[i]]
    ELSE Append(d, [k |-> key, v |-> value])

-----------------------------------------------------------------------------
(* token_detector.py                                                       *)

\* MultiChainTokenDetector.TOKEN_ADDRESSES, flattened in declaration order
\* (symbols in declaration order, networks within a symbol)
TOKEN_ADDRESSES ==
  <<
     [symbol |-> "USDC", chain |-> "ethereum", address |-> "0xA0b86991c6218b36c1d19D4a2e9Eb0cE3606eB48"],
     [symbol |-> "USDC", chain |-> "arbitrum", address |-> "0xaf88d065e77c8cc2239327c5edb3a432268e5831"],
     [symbol |-> "USDC", chain |-> "optimism", address |-> "0x7f5c764cbc14f9669b88837ca1490cca17c31607"],
     [symbol |-> "USDC", chain |-> "base", address |-> "0x833589fCD6eDb6E08f4c7C32D4f71b54bdA02913"],
     [symbol |-> "USDC", chain |-> "polygon", address |-> "0x2791Bca1f2de4661ED88A30C99A7a9449Aa84174"],
     [symbol |-> "USDC", chain |-> "solana", address |-> "EPjFWdd5AufqSSqeM2qN1xzybapC8G4wEGGkZwyTDt1v"],
     [symbol |-> "USDbC", chain |-> "base", address |-> "0xd9aAEc86B65D86f6A7B5B1b0c42FFA531710b6CA"],
     [symbol |-> "WETH", chain |-> "ethereum", address |-> "0xC02aaA39b223FE8D0A0e5C4F27eAD9083C756Cc2"],
     [symbol |-> "WETH", chain |-> "arbitrum", address |-> "0x82aF49447D8a07e3bd95BD0d56f35241523fBab1"],
     [symbol |-> "WETH", chain |-> "optimism", address |-> "0x4200000000000000000000000000000000000006"],
     [symbol |-> "WETH", chain |-> "base", address |-> "0x4200000000000000000000000000000000000006"],
     [symbol |-> "WETH", chain |-> "polygon", address |-> "0x7ceB23fD6bC0adD59E62ac25578270cFf1b9f619"],
     [symbol |-> "WETH", chain |-> "solana", address |-> "7vfCXTUXx5WJV5JADk17DUJ4ksgau7utNKj4b963voxs"],
     [symbol |-> "WBTC", chain |-> "ethereum", address |-> "0x2260FAC5E5542a773Aa44fBCfeDf7C193bc2C599"],
     [symbol |-> "WBTC", chain |-> "arbitrum", address |-> "0x2f2a2543B76A4166549F7aaB2e75Bef0aefC5B0f"],
     [symbol |-> "WBTC", chain |-> "optimism", address |-> "0x68f180fcCe6836688e9084f035309E29Bf0A2095"],
     [symbol |-> "WBTC", chain |-> "base", address |-> "0x236aa50979D5f3De3Bd1Eeb40E81137F22ab794b"],
     [symbol |-> "WBTC", chain |-> "polygon", address |-> "0x1BFD67037B42Cf73acF2047067bd4F2C47D9BfD6"],
     [symbol |-> "WBTC", chain |-> "solana", address |-> "3NZ9JMVBmGAqocybic2c7LQCJScmgsAZ6vQqTDzcqmJh"],
     [symbol |-> "ETH", chain |-> "ethereum", address |-> "0x0000000000000000000000000000000000000000"],
     [symbol |-> "ETH", chain |-> "arbitrum", address |-> "0x0000000000000000000000000000000000000000"],
     [symbol |-> "ETH", chain |-> "optimism", address |-> "0x0000000000000000000000000000000000000000"],
     [symbol |-> "ETH", chain |-> "base", address |-> "0x0000000000000000000000000000000000000000"],
     [symbol |-> "BTC", chain |-> "solana", address |-> "9n4nbM75f5Ui33ZbPYXn59EwSgE8CGsHtAeTH5YFeJ9E"],
     [symbol |-> "SOL", chain |-> "solana", address |-> "So11111111111111111111111111111111111111112"],
     [symbol |-> "SOL", chain |-> "ethereum", address |-> "0xD31a59c85aE9D8edEFeC411D448f90841571b89c"],
     [symbol |-> "SOL", chain |-> "arbitrum", address |-> "0x2bcC6D6CdBbDC0a4071e48bb3B969b06B3330c07"],
     [symbol |-> "USDT", chain |-> "ethereum", address |-> "0xdAC17F958D2ee523a2206206994597C13D831ec7"],
     [symbol |-> "USDT", chain |-> "arbitrum", address |-> "0xFd086bC7CD5C481DCC9C85ebE478A1C0b69FCbb9"],
     [symbol |-> "USDT", chain |-> "optimism", address |-> "0x94b008aA00579c1307B0EF2c499aD98a8ce58e58"],
     [symbol |-> "USDT", chain |-> "base", address |-> "0xfde4C96c8593536E31F229EA8f37b2ADa2699bb2"],
     [symbol |-> "USDT", chain |-> "polygon", address |-> "0xc2132D05D31c914a87C6611C10748AEb04B58e8F"],
     [symbol |-> "USDT", chain |-> "solana", address |-> "Es9vMFrzaCERmJfrF4H2FYD4KCoNkY11McCe8BenwNYB"],
     [symbol |-> "DAI", chain |-> "ethereum", address |-> "0x6B175474E89094C44Da98b954EedeAC495271d0F"],
     [symbol |-> "DAI", chain |-> "arbitrum", address |-> "0xDA10009cBd5D07dd0CeCc66161FC93D7c9000da1"],
     [symbol |-> "DAI", chain |-> "optimism", address |-> "0xDA10009cBd5D07dd0CeCc66161FC93D7c9000da1"],
     [symbol |-> "DAI", chain |-> "base", address |-> "0x50c5725949A6F0c72E6C4a641F24049A917DB0Cb"],
     [symbol |-> "DAI", chain |-> "polygon", address |-> "0x8f3Cf7ad23Cd3CaDbD9735AFf958023239c6A063"]
  >>

\* str.lower() on the address strings that carry upper-case letters
LowerTable ==
    ("0xA0b86991c6218b36c1d19D4a2e9Eb0cE3606eB48" :> "0xa0b86991c6218b36c1d19d4a2e9eb0ce3606eb48")
  @@ ("0x833589fCD6eDb6E08f4c7C32D4f71b54bdA02913" :> "0x833589fcd6edb6e08f4c7c32d4f71b54bda02913")
  @@ ("0x2791Bca1f2de4661ED88A30C99A7a9449Aa84174" :> "0x2791bca1f2de4661ed88a30c99a7a9449aa84174")
  @@ ("EPjFWdd5AufqSSqeM2qN1xzybapC8G4wEGGkZwyTDt1v" :> "epjfwdd5aufqssqem2qn1xzybapc8g4weggkzwytdt1v")
  @@ ("0xd9aAEc86B65D86f6A7B5B1b0c42FFA531710b6CA" :> "0xd9aaec86b65d86f6a7b5b1b0c42ffa531710b6ca")
  @@ ("0xC02aaA39b223FE8D0A0e5C4F27eAD9083C756Cc2" :> "0xc02aaa39b223fe8d0a0e5c4f27ead9083c756cc2")
  @@ ("0x82aF49447D8a07e3bd95BD0d56f35241523fBab1" :> "0x82af49447d8a07e3bd95bd0d56f35241523fbab1")
  @@ ("0x7ceB23fD6bC0adD59E62ac25578270cFf1b9f619" :> "0x7ceb23fd6bc0add59e62ac25578270cff1b9f619")
  @@ ("7vfCXTUXx5WJV5JADk17DUJ4ksgau7utNKj4b963voxs" :> "7vfcxtuxx5wjv5jadk17duj4ksgau7utnkj4b963voxs")
  @@ ("0x2260FAC5E5542a773Aa44fBCfeDf7C193bc2C599" :> "0x2260fac5e5542a773aa44fbcfedf7c193bc2c599")
  @@ ("0x2f2a2543B76A4166549F7aaB2e75Bef0aefC5B0f" :> "0x2f2a2543b76a4166549f7aab2e75bef0aefc5b0f")
  @@ ("0x68f180fcCe6836688e9084f035309E29Bf0A2095" :> "0x68f180fcce6836688e9084f035309e29bf0a2095")
  @@ ("0x236aa50979D5f3De3Bd1Eeb40E81137F22ab794b" :> "0x236aa50979d5f3de3bd1eeb40e81137f22ab794b")
  @@ ("0x1BFD67037B42Cf73acF2047067bd4F2C47D9BfD6" :> "0x1bfd67037b42cf73acf2047067bd4f2c47d9bfd6")
  @@ ("3NZ9JMVBmGAqocybic2c7LQCJScmgsAZ6vQqTDzcqmJh" :> "3nz9jmvbmgaqocybic2c7lqcjscmgsaz6vqqtdzcqmjh")
  @@ ("9n4nbM75f5Ui33ZbPYXn59EwSgE8CGsHtAeTH5YFeJ9E" :> "9n4nbm75f5ui33zbpyxn59ewsge8cgshtaeth5yfej9e")
  @@ ("So11111111111111111111111111111111111111112" :> "so11111111111111111111111111111111111111112")
  @@ ("0xD31a59c85aE9D8edEFeC411D448f90841571b89c" :> "0xd31a59c85ae9d8edefec411d448f90841571b89c")
  @@ ("0x2bcC6D6CdBbDC0a4071e48bb3B969b06B3330c07" :> "0x2bcc6d6cdbbdc0a4071e48bb3b969b06b3330c07")
  @@ ("0xdAC17F958D2ee523a2206206994597C13D831ec7" :> "0xdac17f958d2ee523a2206206994597c13d831ec7")
  @@ ("0xFd086bC7CD5C481DCC9C85ebE478A1C0b69FCbb9" :> "0xfd086bc7cd5c481dcc9c85ebe478a1c0b69fcbb9")
  @@ ("0x94b008aA00579c1307B0EF2c499aD98a8ce58e58" :> "0x94b008aa00579c1307b0ef2c499ad98a8ce58e58")
  @@ ("0xfde4C96c8593536E31F229EA8f37b2ADa2699bb2" :> "0xfde4c96c8593536e31f229ea8f37b2ada2699bb2")
  @@ ("0xc2132D05D31c914a87C6611C10748AEb04B58e8F" :> "0xc2132d05d31c914a87c6611c10748aeb04b58e8f")
  @@ ("Es9vMFrzaCERmJfrF4H2FYD4KCoNkY11McCe8BenwNYB" :> "es9vmfrzacermjfrf4h2fyd4kconky11mcce8benwnyb")
  @@ ("0x6B175474E89094C44Da98b954EedeAC495271d0F" :> "0x6b175474e89094c44da98b954eedeac495271d0f")
  @@ ("0xDA10009cBd5D07dd0CeCc66161FC93D7c9000da1" :> "0xda10009cbd5d07dd0cecc66161fc93d7c9000da1")
  @@ ("0x50c5725949A6F0c72E6C4a641F24049A917DB0Cb" :> "0x50c5725949a6f0c72e6c4a641f24049a917db0cb")
  @@ ("0x8f3Cf7ad23Cd3CaDbD9735AFf958023239c6A063" :> "0x8f3cf7ad23cd3cadbd9735aff958023239c6a063")
  @@ ("0x2260FAC5E5542A773AA44FBCFEDF7C193BC2C599" :> "0x2260fac5e5542a773aa44fbcfedf7c193bc2c599")
  @@ ("0x2F2A2543B76A4166549F7AAB2E75BEF0AEFC5B0F" :> "0x2f2a2543b76a4166549f7aab2e75bef0aefc5b0f")

\* str.lower() of an address
Lower(s) == IF s \in DOMAIN LowerTable THEN LowerTable[s] ELSE s

\* str.lower() of a chain hint, a sequence of characters
UpperChars ==
    <<"A", "B", "C", "D", "E", "F", "G", "H", "I", "J", "K", "L", "M",
      "N", "O", "P", "Q", "R", "S", "T", "U", "V", "W", "X", "Y", "Z">>

LowerChars ==
    <<"a", "b", "c", "d", "e", "f", "g", "h", "i", "j", "k", "l", "m",
      "n", "o", "p", "q", "r", "s", "t", "u", "v", "w", "x", "y", "z">>

LowerChar(c) ==
    IF \E i \in 1..Len(UpperChars) : UpperChars[i] = c
    THEN LowerChars[CHOOSE i \in 1..Len(UpperChars) : UpperChars[i] = c]
    ELSE c

LowerStr(s) == [i \in 1..Len(s) |-> LowerChar(s[i])]

\* needle in s
Contains(needle, s) ==
    \E i \in 0..(Len(s) - Len(needle)) : SubSeq(s, i + 1, i + Len(needle)) = needle

EVM == <<"e", "v", "m">>
SVM == <<"s", "v", "m">>
SOLANA == <<"s", "o", "l", "a", "n", "a">>
\* Python None where a chain hint is expected
NoneHint == <<"None">>
\* truth value of a chain hint: None and "" are false
Truthy(h) == h # NoneHint /\ h # <<>>

ZERO_ADDRESS == "0x0000000000000000000000000000000000000000"

\* _detect_specific_chain testing the hint as spelled, without lower()
DetectSpecificChainAsSpelled(chain_hint) ==
    IF ~Truthy(chain_hint) THEN "unknown"
    ELSE IF Contains(EVM, chain_hint) THEN "ethereum"
    ELSE IF Contains(SVM, chain_hint) \/ Contains(SOLANA, chain_hint) THEN "solana"
    ELSE "unknown"


\* MultiChainTokenDetector._detect_specific_chain
DetectSpecificChain(chain_hint) ==
    IF ~Truthy(chain_hint) THEN "unknown"
    ELSE LET h == LowerStr(chain_hint)
         IN  IF Contains(EVM, h) THEN "ethereum"
             ELSE IF Contains(SVM, h) \/ Contains(SOLANA, h) THEN "solana"
             ELSE "unknown"

\* address.lower() of every registry entry
LowerRegistry == [i \in 1..Len(TOKEN_ADDRESSES) |-> Lower(TOKEN_ADDRESSES[i].address)]

\* indexes of the registry entries whose address equals token_address, case-insensitively
RegistryMatches(token_address) ==
    LET t == Lower(token_address)
    IN  {i \in 1..Len(TOKEN_ADDRESSES) : LowerRegistry[i] = t}

\* the last matching entry instead of the first
Max(S) == CHOOSE x \in S : \A y \in S : x >= y


Min(S) == CHOOSE x \in S : \A y \in S : x <= y

\* detect_token_and_chain comparing the addresses as spelled, without lower()
detect_token_and_chain_as_spelled(token_address, chain_hint) ==
    LET matches == {i \in 1..Len(TOKEN_ADDRESSES) : TOKEN_ADDRESSES[i].address = token_address}
    IN  IF /\ token_address = ZERO_ADDRESS
           /\ Truthy(chain_hint)
           /\ Contains(EVM, LowerStr(chain_hint))
        THEN <<"ETH", "ethereum">>
        ELSE IF matches # {}
        THEN LET e == TOKEN_ADDRESSES[Min(matches)]
             IN  <<e.symbol, e.chain>>
        ELSE <<"UNKNOWN", IF Truthy(chain_hint) THEN DetectSpecificChain(chain_hint) ELSE "unknown">>


\* MultiChainTokenDetector.detect_token_and_chain: <<token_symbol, specific_chain>>
detect_token_and_chain(token_address, chain_hint) ==
    IF /\ token_address = ZERO_ADDRESS
       /\ Truthy(chain_hint)
       /\ Contains(EVM, LowerStr(chain_hint))
    THEN <<"ETH", "ethereum">>
    ELSE IF RegistryMatches(token_address) # {}
    THEN LET e == TOKEN_ADDRESSES[Min(RegistryMatches(token_address))]
         IN  <<e.symbol, e.chain>>
    ELSE <<"UNKNOWN", IF Truthy(chain_hint) THEN DetectSpecificChain(chain_hint) ELSE "unknown">>

\* MultiChainTokenDetector.get_wbtc_addresses: the addresses of the WBTC entry
get_wbtc_addresses ==
    {TOKEN_ADDRESSES[i].address : i \in {j \in 1..Len(TOKEN_ADDRESSES) : TOKEN_ADDRESSES[j].symbol = "WBTC"}}

\* is_wbtc_address comparing the addresses as spelled, without lower()
is_wbtc_address_exact(token_address) ==
    token_address \in get_wbtc_addresses

\* MultiChainTokenDetector.is_wbtc_address
is_wbtc_address(token_address) ==
    \E addr \in get_wbtc_addresses : Lower(addr) = Lower(token_address)

-----------------------------------------------------------------------------
(* config.py                                                               *)

\* Config.CHAINS in declaration order; target_allocation 0.40, 0.25, 0.20, 0.15
CHAINS ==
    << [key |-> "ethereum", name |-> "Ethereum", chain_id |-> "evm",
        specific_chain |-> "eth",      target_allocation |-> Rat(40, 100)],
       [key |-> "arbitrum", name |-> "Arbitrum", chain_id |-> "evm",
        specific_chain |-> "arbitrum", target_allocation |-> Rat(25, 100)],
       [key |-> "optimism", name |-> "Optimism", chain_id |-> "evm",
        specific_chain |-> "optimism", target_allocation |-> Rat(20, 100)],
       [key |-> "base",     name |-> "Base",     chain_id |-> "evm",
        specific_chain |-> "base",     target_allocation |-> Rat(15, 100)] >>

\* Config.REBALANCE_THRESHOLD = 0.05
REBALANCE_THRESHOLD == Rat(5, 100)

\* Config.MIN_TRADE_VALUE
MIN_TRADE_VALUE == 10

-----------------------------------------------------------------------------
(* Holdings: the token_info dicts of a portfolio's "tokens" list.  absent  *)
(* names the keys the dict does not carry; the field of an absent key is   *)
(* never read.                                                             *)

HasKey(t, key) == key \notin t.absent

\* a holding as the API reports it: value = amount * price
Holding(token, symbol, amount, price, specificChain, chain) ==
    [token |-> token, symbol |-> symbol, amount |-> amount, price |-> price,
     value |-> amount * price, specificChain |-> specificChain, chain |-> chain,
     chain_type |-> chain, absent |-> {}]

Without(t, keys) == [t EXCEPT !.absent = @ \cup keys]

-----------------------------------------------------------------------------
(* btc_agent.py: PortfolioAnalyzer                                         *)

\* lines 52-54 overwriting the network's value instead of adding to it
AccumulateOverwrite(chain_values, specific_chain, value) ==
    DictSet(chain_values, specific_chain, value)

\* lines 52-54: chain_values[specific_chain] += value, from 0 for a new network
Accumulate(chain_values, specific_chain, value) ==
    DictSet(chain_values, specific_chain, DictGet(chain_values, specific_chain, 0) + value)

\* the loop of analyze_chain_distribution from holding i on:
\* [raised, chain_values, total]; raised is a KeyError on a missing key
RECURSIVE AnalyzeFrom(_, _, _, _)
AnalyzeFrom(tokens, i, chain_values, total) ==
    IF i > Len(tokens)
    THEN [raised |-> FALSE, chain_values |-> chain_values, total |-> total]
    ELSE LET token_info == tokens[i]
         IN  IF ~HasKey(token_info, "token")
             THEN [raised |-> TRUE, chain_values |-> chain_values, total |-> total]
             ELSE LET chain_hint == IF HasKey(token_info, "chain") THEN token_info.chain ELSE EVM
                  IN  IF is_wbtc_address(token_info.token)
                      THEN IF ~HasKey(token_info, "value")
                           THEN [raised |-> TRUE, chain_values |-> chain_values, total |-> total]
                           ELSE LET specific_chain ==
                                        detect_token_and_chain(token_info.token, chain_hint)[2]
                                    value == token_info.value
                                IN  AnalyzeFrom(tokens, i + 1,
                                        Accumulate(chain_values, specific_chain, value),
                                        total + value)
                      ELSE AnalyzeFrom(tokens, i + 1, chain_values, total)

\* analyze_chain_distribution reporting a fraction of 0 for every network seen
\* when the total is not positive
analyze_chain_distribution_zero_entries(tokens) ==
    LET r == AnalyzeFrom(tokens, 1, <<>>, 0)
    IN  IF r.raised THEN [raised |-> TRUE, value |-> <<>>]
        ELSE [raised |-> FALSE,
              value |-> [i \in 1..Len(r.chain_values) |->
                            [k |-> r.chain_values[i].k,
                             v |-> IF r.total > 0
                                   THEN Rat(r.chain_values[i].v, r.total)
                                   ELSE RatOfInt(0)]]]

\* PortfolioAnalyzer.analyze_chain_distribution: [raised, value], value the
\* dict chain -> fraction
analyze_chain_distribution(tokens) ==
    LET r == AnalyzeFrom(tokens, 1, <<>>, 0)
    IN  IF r.raised THEN [raised |-> TRUE, value |-> <<>>]
        ELSE [raised |-> FALSE,
              value |-> IF r.total > 0
                        THEN [i \in 1..Len(r.chain_values) |->
                                 [k |-> r.chain_values[i].k,
                                  v |-> Rat(r.chain_values[i].v, r.total)]]
                        ELSE <<>>]

\* Intent with the action decided the other way round
IntentSwapped(chain_config, current_pct, target_pct, drift, value_diff) ==
    [chain |-> chain_config.specific_chain,
     chain_name |-> chain_config.name,
     current_pct |-> current_pct,
     target_pct |-> target_pct,
     drift |-> drift,
     value_diff |-> value_diff,
     action |-> IF RatGt(value_diff, RatOfInt(0)) THEN "sell" ELSE "buy"]

\* the intent of lines 82-90
Intent(chain_config, current_pct, target_pct, drift, value_diff) ==
    [chain |-> chain_config.specific_chain,
     chain_name |-> chain_config.name,
     current_pct |-> current_pct,
     target_pct |-> target_pct,
     drift |-> drift,
     value_diff |-> value_diff,
     action |-> IF RatGt(value_diff, RatOfInt(0)) THEN "buy" ELSE "sell"]

\* RebalanceEntry emitting when either test passes
RebalanceEntryEither(chain_config, distribution, total) ==
    LET current_pct == DictGet(distribution, chain_config.specific_chain, RatOfInt(0))
        target_pct == chain_config.target_allocation
        drift == RatAbs(RatSub(current_pct, target_pct))
        value_diff == RatSub(RatMulInt(target_pct, total), RatMulInt(current_pct, total))
    IN  [emit |-> \/ RatGt(drift, REBALANCE_THRESHOLD)
                  \/ RatGt(RatAbs(value_diff), RatOfInt(MIN_TRADE_VALUE)),
         intent |-> Intent(chain_config, current_pct, target_pct, drift, value_diff)]

\* one iteration of calculate_rebalance_trades, lines 72-90: [emit, intent]
RebalanceEntry(chain_config, distribution, total) ==
    LET current_pct == DictGet(distribution, chain_config.specific_chain, RatOfInt(0))
        target_pct == chain_config.target_allocation
        drift == RatAbs(RatSub(current_pct, target_pct))
        current_value == RatMulInt(current_pct, total)
        target_value == RatMulInt(target_pct, total)
        value_diff == RatSub(target_value, current_value)
    IN  [emit |-> /\ RatGt(drift, REBALANCE_THRESHOLD)
                  /\ RatGt(RatAbs(value_diff), RatOfInt(MIN_TRADE_VALUE)),
         intent |-> Intent(chain_config, current_pct, target_pct, drift, value_diff)]

\* the loop of calculate_rebalance_trades over Config.CHAINS from entry i on
RECURSIVE RebalanceFrom(_, _, _, _)
RebalanceFrom(i, distribution, total, trades) ==
    IF i > Len(CHAINS) THEN trades
    ELSE LET e == RebalanceEntry(CHAINS[i], distribution, total)
         IN  RebalanceFrom(i + 1, distribution, total,
                           IF e.emit THEN Append(trades, e.intent) ELSE trades)

Reverse(s) == [i \in 1..Len(s) |-> s[Len(s) + 1 - i]]

\* calculate_rebalance_trades inserting each intent at the front of the list
calculate_rebalance_trades_front(distribution, total) ==
    Reverse(RebalanceFrom(1, distribution, total, <<>>))

\* PortfolioAnalyzer.calculate_rebalance_trades
calculate_rebalance_trades(distribution, total) ==
    RebalanceFrom(1, distribution, total, <<>>)

\* run_strategy, lines 136-139: the sum of token["value"] over the holdings
\* labelled WBTC or held at a WBTC address, from holding i on: [raised, total]
RECURSIVE TotalFrom(_, _, _)
TotalFrom(tokens, i, acc) ==
    IF i > Len(tokens) THEN [raised |-> FALSE, total |-> acc]
    ELSE LET token == tokens[i]
             labelled == HasKey(token, "symbol") /\ token.symbol = "WBTC"
         IN  IF ~labelled /\ ~HasKey(token, "token")
             THEN [raised |-> TRUE, total |-> acc]
             ELSE IF labelled \/ is_wbtc_address(token.token)
             THEN IF ~HasKey(token, "value")
                  THEN [raised |-> TRUE, total |-> acc]
                  ELSE TotalFrom(tokens, i + 1, acc + token.value)
             ELSE TotalFrom(tokens, i + 1, acc)

-----------------------------------------------------------------------------
(* trading_engine.py: TradingEngine.convert_to_wbtc                        *)

\* target_wbtc_address, line 29
TARGET_WBTC_ADDRESS == "0x2260FAC5E5542a773Aa44fBCfeDf7C193bc2C599"

\* str(amount)
Str(x) == <<"str", x>>

\* the keys convert_to_wbtc reads with token_info[...], lines 34-36
ConvertKeysPresent(token_info) ==
    /\ HasKey(token_info, "token")
    /\ HasKey(token_info, "amount")
    /\ HasKey(token_info, "value")

\* line 39: token_info.get("symbol", "UNKNOWN")
SymbolOf(token_info) ==
    IF HasKey(token_info, "symbol") THEN token_info.symbol ELSE "UNKNOWN"

\* line 40: token_info.get("specificChain", "eth")
SpecificChainOf(token_info) ==
    IF HasKey(token_info, "specificChain") THEN token_info.specificChain ELSE "eth"

\* line 41: token_info.get("chain_type", token_info.get("chain", "evm"))
ChainTypeOf(token_info) ==
    IF HasKey(token_info, "chain_type") THEN token_info.chain_type
    ELSE IF HasKey(token_info, "chain") THEN token_info.chain
    ELSE EVM

\* line 44: the holding is kept as WBTC
KeptAsWbtc(token_info) ==
    SymbolOf(token_info) = "WBTC" \/ is_wbtc_address(token_info.token)

\* the dust test with <= for <
IsDustInclusive(token_info) == token_info.value <= MIN_TRADE_VALUE

\* line 49: the holding is dust
IsDust(token_info) == token_info.value < MIN_TRADE_VALUE

\* line 54: the holding has no balance
IsZeroAmount(token_info) == token_info.amount <= 0

\* lines 60-78: the arguments of api.execute_trade for a holding
TradeRequest(token_info) ==
    LET svm == SpecificChainOf(token_info) = "svm" \/ ChainTypeOf(token_info) = SVM
    IN  [fromToken |-> token_info.token,
         toToken |-> TARGET_WBTC_ADDRESS,
         amount |-> Str(token_info.amount),
         fromChain |-> IF svm THEN "svm" ELSE "evm",
         fromSpecificChain |-> IF svm THEN "svm" ELSE SpecificChainOf(token_info),
         toChain |-> "evm",
         toSpecificChain |-> "eth",
         reason |-> <<"Convert ", SymbolOf(token_info), " to WBTC - BTC maximalist strategy">>]

-----------------------------------------------------------------------------
(* Bounds and inputs                                                       *)

\* longest snapshot the planning steps are run on
MaxHoldings == 4
\* longest snapshot convert_to_wbtc is run on
MaxConvHoldings == 3

RegAddr(symbol, chain) ==
    TOKEN_ADDRESSES[CHOOSE i \in 1..Len(TOKEN_ADDRESSES) :
        TOKEN_ADDRESSES[i].symbol = symbol /\ TOKEN_ADDRESSES[i].chain = chain].address

\* an address no registry entry holds
UNREGISTERED == "0x1111111111111111111111111111111111111111"

\* the holdings the planning snapshots are built from
PlanPool ==
    { Holding(RegAddr("WBTC", "ethereum"), "WBTC", 6, 6000, "eth", EVM),
      Holding(RegAddr("WBTC", "arbitrum"), "WBTC", 4, 6000, "arbitrum", EVM),
      Holding(Lower(RegAddr("WBTC", "arbitrum")), "USDC", 5, 5, "arbitrum", EVM),
      Holding(RegAddr("WBTC", "optimism"), "WBTC", 3, 6000, "optimism", EVM),
      Holding(RegAddr("WBTC", "base"), "WBTC", 2, 6000, "base", EVM),
      Holding(RegAddr("WBTC", "polygon"), "WBTC", 1, 0, "polygon", EVM),
      Holding(RegAddr("USDC", "arbitrum"), "WBTC", 100, 1, "arbitrum", EVM),
      Holding(RegAddr("WBTC", "ethereum"), "WBTC", -1, 10, "eth", EVM),
      Without(Holding(RegAddr("WBTC", "optimism"), "WBTC", 2, 10, "optimism", EVM), {"value"}),
      Without(Holding(UNREGISTERED, "USDC", 7, 1, "eth", EVM), {"token"}) }

\* the holdings the conversion snapshots are built from
ConvPool ==
    { Holding(RegAddr("USDC", "arbitrum"), "USDC", 100, 1, "arbitrum", EVM),
      Holding(RegAddr("SOL", "solana"), "SOL", 2, 150, "svm", SVM),
      Holding(RegAddr("USDT", "ethereum"), "USDT", 10, 1, "eth", EVM),
      Holding(RegAddr("USDC", "ethereum"), "USDC", 5, 1, "eth", EVM),
      Holding(RegAddr("WBTC", "ethereum"), "WBTC", 1, 60000, "eth", EVM),
      Holding("0x2F2A2543B76A4166549F7AAB2E75BEF0AEFC5B0F", "USDC", 1, 60000, "arbitrum", EVM),
      Holding(UNREGISTERED, "WBTC", 50, 1, "eth", EVM),
      Holding(RegAddr("DAI", "ethereum"), "DAI", -2, -10, "eth", EVM),
      Without(Holding(UNREGISTERED, "", 30, 1, "", EVM), {"symbol", "specificChain", "chain_type"}),
      Without(Holding(RegAddr("USDC", "base"), "USDC", 40, 1, "base", EVM), {"value"}) }

\* calculate_rebalance_trades called directly: the keys a distribution may
\* carry, the fractions (in hundredths) a key may have, and the totals
GridKeys == <<"eth", "ethereum", "arbitrum", "optimism", "base">>
PctGrid == {0, 15, 20, 30, 40, 60}
TotalGrid == {0, 1, 10, 100, 60000}
\* what a key of a distribution may be: absent, or present with a fraction
GridOptions == {<<FALSE, 0>>} \cup {<<TRUE, p>> : p \in PctGrid}

RECURSIVE DistFrom(_, _)
DistFrom(f, i) ==
    IF i > Len(GridKeys) THEN <<>>
    ELSE IF ~f[i][1] THEN DistFrom(f, i + 1)
    ELSE <<[k |-> GridKeys[i], v |-> Rat(f[i][2], 100)]>> \o DistFrom(f, i + 1)

RECURSIVE SumPct(_, _)
SumPct(f, i) ==
    IF i > Len(GridKeys) THEN 0
    ELSE f[i][2] + SumPct(f, i + 1)

\* the distributions whose fractions sum to at most 1
GridDists ==
    {DistFrom(f, 1) : f \in {g \in [1..Len(GridKeys) -> GridOptions] : SumPct(g, 1) <= 100}}

SeqsUpTo(S, n) == UNION {[1..m -> S] : m \in 0..n}

PlanSnapshots == SeqsUpTo(PlanPool, MaxHoldings)
ConvSnapshots == SeqsUpTo(ConvPool, MaxConvHoldings)

-----------------------------------------------------------------------------
(* State machine                                                           *)

\* no call of the detector is being looked at
DetectIdle == det_address = "" /\ det_hint = NoneHint /\ detected = <<>>

detVars == <<det_address, det_hint, detected>>

InitAt(start) ==
    /\ pc = start
    /\ portfolio = <<>>
    /\ idx = 0
    /\ trades_executed = <<>>
    /\ api_log = <<>>
    /\ updated_portfolio = <<>>
    /\ current_distribution = <<>>
    /\ total_wbtc_value = 0
    /\ trades_needed = <<>>
    /\ calls = <<>>
    /\ result = <<>>
    /\ DetectIdle

planVars == <<updated_portfolio, current_distribution, total_wbtc_value, trades_needed>>
convVars == <<portfolio, idx, trades_executed, api_log>>

\* run_strategy line 119: the snapshot is fetched
FetchPortfolio ==
    /\ pc = "step1"
    /\ \E s \in ConvSnapshots : portfolio' = s
    /\ pc' = "step2"
    /\ calls' = Append(calls, "get_enhanced_portfolio")
    /\ UNCHANGED <<idx, trades_executed, api_log, planVars, result, detVars>>

\* convert_to_wbtc lines 21-33: an empty snapshot returns at once
ConvertBegin ==
    /\ pc = "step2"
    /\ pc' = IF portfolio = <<>> THEN "converted" ELSE "convert_loop"
    /\ idx' = 1
    /\ trades_executed' = <<>>
    /\ calls' = Append(calls, "convert_to_wbtc")
    /\ UNCHANGED <<portfolio, api_log, planVars, result, detVars>>

AtHolding == pc = "convert_loop" /\ idx <= Len(portfolio)

\* lines 34-36: a missing key raises KeyError out of the loop and the call
ConvertRaise ==
    /\ AtHolding
    /\ ~ConvertKeysPresent(portfolio[idx])
    /\ pc' = "failed"
    /\ UNCHANGED <<convVars, planVars, calls, result, detVars>>

\* lines 44-46
ConvertKeepWbtc ==
    /\ AtHolding
    /\ ConvertKeysPresent(portfolio[idx])
    /\ KeptAsWbtc(portfolio[idx])
    /\ idx' = idx + 1
    /\ UNCHANGED <<pc, portfolio, trades_executed, api_log, planVars, calls, result, detVars>>

\* lines 49-51
ConvertSkipDust ==
    /\ AtHolding
    /\ ConvertKeysPresent(portfolio[idx])
    /\ ~KeptAsWbtc(portfolio[idx])
    /\ IsDust(portfolio[idx])
    /\ idx' = idx + 1
    /\ UNCHANGED <<pc, portfolio, trades_executed, api_log, planVars, calls, result, detVars>>

\* lines 54-56
ConvertSkipZero ==
    /\ AtHolding
    /\ ConvertKeysPresent(portfolio[idx])
    /\ ~KeptAsWbtc(portfolio[idx])
    /\ ~IsDust(portfolio[idx])
    /\ IsZeroAmount(portfolio[idx])
    /\ idx' = idx + 1
    /\ UNCHANGED <<pc, portfolio, trades_executed, api_log, planVars, calls, result, detVars>>

Eligible(token_info) ==
    /\ ConvertKeysPresent(token_info)
    /\ ~KeptAsWbtc(token_info)
    /\ ~IsDust(token_info)
    /\ ~IsZeroAmount(token_info)

\* lines 60-80: execute_trade answers; its result is appended
ConvertTradeOk ==
    /\ AtHolding
    /\ Eligible(portfolio[idx])
    /\ api_log' = Append(api_log, [holding |-> idx, request |-> TradeRequest(portfolio[idx]), ok |-> TRUE])
    /\ trades_executed' = Append(trades_executed, [success |-> TRUE, call |-> Len(api_log) + 1])
    /\ idx' = idx + 1
    /\ UNCHANGED <<pc, portfolio, planVars, calls, result, detVars>>

\* ConvertTradeFail without the try/except: the exception leaves the call
ConvertTradeFailAborts ==
    /\ AtHolding
    /\ Eligible(portfolio[idx])
    /\ api_log' = Append(api_log, [holding |-> idx, request |-> TradeRequest(portfolio[idx]), ok |-> FALSE])
    /\ pc' = "failed"
    /\ UNCHANGED <<idx, portfolio, trades_executed, planVars, calls, result, detVars>>

\* lines 60-78, 82-84: execute_trade raises; the exception is logged
ConvertTradeFail ==
    /\ AtHolding
    /\ Eligible(portfolio[idx])
    /\ api_log' = Append(api_log, [holding |-> idx, request |-> TradeRequest(portfolio[idx]), ok |-> FALSE])
    /\ idx' = idx + 1
    /\ UNCHANGED <<pc, portfolio, trades_executed, planVars, calls, result, detVars>>

\* line 86
ConvertReturn ==
    /\ pc = "convert_loop"
    /\ idx > Len(portfolio)
    /\ pc' = "converted"
    /\ UNCHANGED <<convVars, planVars, calls, result, detVars>>

\* run_strategy line 133
FetchUpdated ==
    /\ pc = "step3"
    /\ \E s \in PlanSnapshots : updated_portfolio' = s
    /\ pc' = "analyze"
    /\ calls' = Append(calls, "get_enhanced_portfolio")
    /\ UNCHANGED <<convVars, current_distribution, total_wbtc_value, trades_needed, result, detVars>>

\* run_strategy line 134
Analyze ==
    /\ pc = "analyze"
    /\ LET r == analyze_chain_distribution(updated_portfolio)
       IN  IF r.raised
           THEN pc' = "failed" /\ UNCHANGED current_distribution
           ELSE pc' = "total" /\ current_distribution' = r.value
    /\ calls' = Append(calls, "analyze_chain_distribution")
    /\ UNCHANGED <<convVars, updated_portfolio, total_wbtc_value, trades_needed, result, detVars>>

\* run_strategy lines 136-139
ComputeTotal ==
    /\ pc = "total"
    /\ LET r == TotalFrom(updated_portfolio, 1, 0)
       IN  IF r.raised
           THEN pc' = "failed" /\ UNCHANGED total_wbtc_value
           ELSE pc' = "step4" /\ total_wbtc_value' = r.total
    /\ UNCHANGED <<convVars, updated_portfolio, current_distribution, trades_needed, calls, result, detVars>>

\* run_strategy lines 142-149
Plan ==
    /\ pc = "step4"
    /\ trades_needed' = IF total_wbtc_value > 0
                        THEN calculate_rebalance_trades(current_distribution, total_wbtc_value)
                        ELSE <<>>
    /\ pc' = "planned"
    /\ calls' = IF total_wbtc_value > 0
                 THEN Append(calls, "calculate_rebalance_trades")
                 ELSE calls
    /\ UNCHANGED <<convVars, updated_portfolio, current_distribution, total_wbtc_value, result, detVars>>

\* calculate_rebalance_trades called on its own, whatever the total
CallRebalance ==
    /\ pc = "call_rebalance"
    /\ trades_needed' = calculate_rebalance_trades(current_distribution, total_wbtc_value)
    /\ pc' = "planned"
    /\ calls' = Append(calls, "calculate_rebalance_trades")
    /\ UNCHANGED <<convVars, updated_portfolio, current_distribution, total_wbtc_value, result, detVars>>

\* convert_to_wbtc on the snapshots of ConvSnapshots
NextConvert ==
    \/ FetchPortfolio
    \/ ConvertBegin
    \/ ConvertRaise
    \/ ConvertKeepWbtc
    \/ ConvertSkipDust
    \/ ConvertSkipZero
    \/ ConvertTradeOk
    \/ ConvertTradeFail
    \/ ConvertReturn

SpecConvert == InitAt("step1") /\ [][NextConvert]_vars

\* steps 3 and 4 of run_strategy on the snapshots of PlanSnapshots
NextPlan ==
    \/ FetchUpdated
    \/ Analyze
    \/ ComputeTotal
    \/ Plan

SpecPlan == InitAt("step3") /\ [][NextPlan]_vars

\* calculate_rebalance_trades on the distributions of GridDists and the totals of TotalGrid
InitRebalance ==
    /\ pc = "call_rebalance"
    /\ portfolio = <<>>
    /\ idx = 0
    /\ trades_executed = <<>>
    /\ api_log = <<>>
    /\ updated_portfolio = <<>>
    /\ current_distribution \in GridDists
    /\ total_wbtc_value \in TotalGrid
    /\ trades_needed = <<>>
    /\ calls = <<>>
    /\ result = <<>>
    /\ DetectIdle

NextRebalance == CallRebalance

SpecRebalance == InitRebalance /\ [][NextRebalance]_vars

-----------------------------------------------------------------------------
(* run_strategy from its first line to its return                          *)

\* longest snapshot the API answers with during a whole run
MaxRunHoldings == 3

\* the holdings of the first snapshot of a run: one to convert, WBTC to keep,
\* dust, a non-positive amount, and one without "value"
RunPool ==
    { Holding(RegAddr("USDC", "arbitrum"), "USDC", 100, 1, "arbitrum", EVM),
      Holding(RegAddr("WBTC", "ethereum"), "WBTC", 6, 6000, "eth", EVM),
      Holding(RegAddr("USDC", "ethereum"), "USDC", 5, 1, "eth", EVM),
      Holding(RegAddr("DAI", "ethereum"), "DAI", -2, -10, "eth", EVM),
      Without(Holding(RegAddr("USDC", "base"), "USDC", 40, 1, "base", EVM), {"value"}) }

\* the holdings of the second snapshot: WBTC on two networks, WBTC without
\* "value", and a holding labelled WBTC at an unregistered address without "value"
RunUpdatedPool ==
    { Holding(RegAddr("WBTC", "ethereum"), "WBTC", 6, 6000, "eth", EVM),
      Holding(RegAddr("WBTC", "arbitrum"), "WBTC", 4, 6000, "arbitrum", EVM),
      Without(Holding(RegAddr("WBTC", "optimism"), "WBTC", 2, 10, "optimism", EVM), {"value"}),
      Without(Holding(UNREGISTERED, "WBTC", 50, 1, "eth", EVM), {"value"}) }

\* the holdings of the final snapshot
FinalPool ==
    { Holding(RegAddr("WBTC", "ethereum"), "WBTC", 6, 6000, "eth", EVM),
      Without(Holding(UNREGISTERED, "USDC", 7, 1, "eth", EVM), {"token"}) }

RunSnapshots == SeqsUpTo(RunPool, MaxRunHoldings)
RunUpdatedSnapshots == SeqsUpTo(RunUpdatedPool, MaxRunHoldings)
FinalSnapshots == {<<>>} \cup {<<h>> : h \in FinalPool}

\* run_strategy line 119
RunFetchPortfolio ==
    /\ pc = "step1"
    /\ \E s \in RunSnapshots : portfolio' = s
    /\ pc' = "step2"
    /\ calls' = Append(calls, "get_enhanced_portfolio")
    /\ UNCHANGED <<idx, trades_executed, api_log, planVars, result, detVars>>

\* Settle sleeping whatever convert_to_wbtc returned
SettleAlways ==
    /\ pc = "converted"
    /\ calls' = Append(calls, "sleep")
    /\ pc' = "step3"
    /\ UNCHANGED <<convVars, planVars, result, detVars>>

\* run_strategy lines 128-130: time.sleep(Config.SETTLE_DELAY) if conversion_trades
Settle ==
    /\ pc = "converted"
    /\ calls' = IF trades_executed # <<>> THEN Append(calls, "sleep") ELSE calls
    /\ pc' = "step3"
    /\ UNCHANGED <<convVars, planVars, result, detVars>>

\* run_strategy line 133
RunFetchUpdated ==
    /\ pc = "step3"
    /\ \E s \in RunUpdatedSnapshots : updated_portfolio' = s
    /\ pc' = "analyze"
    /\ calls' = Append(calls, "get_enhanced_portfolio")
    /\ UNCHANGED <<convVars, current_distribution, total_wbtc_value, trades_needed, result, detVars>>

\* run_strategy lines 145-149: execute_rebalance_trades, which returns [],
\* is called if trades_needed is not empty
ExecuteRebalance ==
    /\ pc = "planned"
    /\ calls' = IF trades_needed # <<>> THEN Append(calls, "execute_rebalance_trades") ELSE calls
    /\ pc' = "step5"
    /\ UNCHANGED <<convVars, planVars, result, detVars>>

\* run_strategy lines 152-169: the final snapshot is fetched and analysed
Finish ==
    /\ pc = "step5"
    /\ \E s \in FinalSnapshots :
          LET r == analyze_chain_distribution(s)
          IN  IF r.raised
              THEN pc' = "failed" /\ UNCHANGED result
              ELSE /\ pc' = "done"
                   /\ result' = [conversion_trades |-> Len(trades_executed),
                                 rebalance_trades |-> 0,
                                 final_distribution |-> r.value]
    /\ calls' = calls \o <<"get_portfolio", "analyze_chain_distribution">>
    /\ UNCHANGED <<convVars, planVars, detVars>>

\* run_strategy
Next ==
    \/ RunFetchPortfolio
    \/ ConvertBegin
    \/ ConvertRaise
    \/ ConvertKeepWbtc
    \/ ConvertSkipDust
    \/ ConvertSkipZero
    \/ ConvertTradeOk
    \/ ConvertTradeFail
    \/ ConvertReturn
    \/ Settle
    \/ RunFetchUpdated
    \/ Analyze
    \/ ComputeTotal
    \/ Plan
    \/ ExecuteRebalance
    \/ Finish

Spec == InitAt("step1") /\ [][Next]_vars

-----------------------------------------------------------------------------
(* detect_token_and_chain called on its own                                *)

\* the addresses the detector is asked about: every registry address as
\* spelled, in lower case and (for two of them) in upper case, and one
\* address the registry does not hold
DetectAddresses ==
    {TOKEN_ADDRESSES[i].address : i \in 1..Len(TOKEN_ADDRESSES)}
        \cup {Lower(TOKEN_ADDRESSES[i].address) : i \in 1..Len(TOKEN_ADDRESSES)}
        \cup DOMAIN LowerTable
        \cup {UNREGISTERED}

\* the chain hints: None, "", "evm", "svm", "solana", "EVM", "Svm", "Solana",
\* "L2-evm", "svm/evm", "btc"
DetectHints ==
    { NoneHint, <<>>, EVM, SVM, SOLANA,
      <<"E", "V", "M">>,
      <<"S", "v", "m">>,
      <<"S", "o", "l", "a", "n", "a">>,
      <<"L", "2", "-", "e", "v", "m">>,
      <<"s", "v", "m", "/", "e", "v", "m">>,
      <<"b", "t", "c">> }

InitDetect ==
    /\ pc = "detect"
    /\ portfolio = <<>>
    /\ idx = 0
    /\ trades_executed = <<>>
    /\ api_log = <<>>
    /\ updated_portfolio = <<>>
    /\ current_distribution = <<>>
    /\ total_wbtc_value = 0
    /\ trades_needed = <<>>
    /\ calls = <<>>
    /\ result = <<>>
    /\ det_address \in DetectAddresses
    /\ det_hint \in DetectHints
    /\ detected = <<>>

\* MultiChainTokenDetector.detect_token_and_chain(token_address, chain_hint)
Detect ==
    /\ pc = "detect"
    /\ detected' = detect_token_and_chain(det_address, det_hint)
    /\ pc' = "detected"
    /\ UNCHANGED <<convVars, planVars, calls, result, det_address, det_hint>>

NextDetect == Detect

SpecDetect == InitDetect /\ [][NextDetect]_vars

-----------------------------------------------------------------------------
(* Properties                                                              *)

\* the positions at which analyze_chain_distribution has returned
Analyzed == pc \in {"total", "step4", "planned"}

\* the policy entry an intent was emitted for, by its display name
PolicyKeyOf(intent) ==
    CHAINS[CHOOSE i \in 1..Len(CHAINS) : CHAINS[i].name = intent.chain_name].key

\* Scenario B: WBTC worth 36000 on ethereum and 24000 on arbitrum
ScenarioB ==
    << Holding(RegAddr("WBTC", "ethereum"), "WBTC", 6, 6000, "eth", EVM),
       Holding(RegAddr("WBTC", "arbitrum"), "WBTC", 4, 6000, "arbitrum", EVM) >>

\* C1: on the Scenario B snapshot (total 60000) the plan is exactly
\* ethereum (sell, drift 0.20), arbitrum (sell, drift 0.15),
\* optimism (buy, drift 0.20), base (buy, drift 0.15), in this order.
C1_ScenarioBPlan ==
    (pc = "planned" /\ updated_portfolio = ScenarioB) =>
        /\ total_wbtc_value = 60000
        /\ [j \in 1..Len(trades_needed) |->
               <<PolicyKeyOf(trades_needed[j]), trades_needed[j].action, trades_needed[j].drift>>]
           = << <<"ethereum", "sell", Rat(20, 100)>>,
                <<"arbitrum", "sell", Rat(15, 100)>>,
                <<"optimism", "buy", Rat(20, 100)>>,
                <<"base", "buy", Rat(15, 100)>> >>

\* every policy network's fraction in the returned mapping (0 when absent)
\* is within the threshold of its target
AllWithinThreshold ==
    \A i \in 1..Len(CHAINS) :
        RatLe(RatAbs(RatSub(DictGet(current_distribution, CHAINS[i].key, RatOfInt(0)),
                            CHAINS[i].target_allocation)),
              REBALANCE_THRESHOLD)

\* C2: when every policy network's fraction returned by
\* analyze_chain_distribution is within the threshold of its target, the plan
\* calculate_rebalance_trades returns for that mapping is empty.
C2_WithinThresholdEmptyPlan ==
    (pc = "planned" /\ AllWithinThreshold) => trades_needed = <<>>

\* drift > REBALANCE_THRESHOLD for policy entry i, on integers:
\* |n/d - tn/td| > thn/thd
DriftExceeds(i) ==
    LET c == DictGet(current_distribution, CHAINS[i].specific_chain, RatOfInt(0))
        t == CHAINS[i].target_allocation
    IN  Abs(c.n * t.d - t.n * c.d) * REBALANCE_THRESHOLD.d > REBALANCE_THRESHOLD.n * c.d * t.d

\* |value_diff| > MIN_TRADE_VALUE for policy entry i, on integers:
\* |tn/td - n/d| * |total| > MIN_TRADE_VALUE
ValueDiffExceeds(i) ==
    LET c == DictGet(current_distribution, CHAINS[i].specific_chain, RatOfInt(0))
        t == CHAINS[i].target_allocation
    IN  Abs(t.n * c.d - c.n * t.d) * Abs(total_wbtc_value) > MIN_TRADE_VALUE * c.d * t.d

EmittedFor(i) ==
    \E j \in 1..Len(trades_needed) : trades_needed[j].chain = CHAINS[i].specific_chain

\* C3: calculate_rebalance_trades emits an intent for a policy entry exactly
\* when drift > REBALANCE_THRESHOLD and |value_diff| > MIN_TRADE_VALUE both
\* hold for the entry; every emitted intent carries such a drift and value_diff.
C3_EmitIffBoth ==
    pc = "planned" =>
        /\ \A i \in 1..Len(CHAINS) : EmittedFor(i) <=> (DriftExceeds(i) /\ ValueDiffExceeds(i))
        /\ \A j \in 1..Len(trades_needed) :
              /\ RatGt(trades_needed[j].drift, REBALANCE_THRESHOLD)
              /\ RatGt(RatAbs(trades_needed[j].value_diff), RatOfInt(MIN_TRADE_VALUE))

\* C3 witness: one entry drifts beyond the threshold but its value delta is
\* dust and it is not emitted, while another entry of the same plan is emitted
C3_Witness ==
    /\ pc = "planned"
    /\ total_wbtc_value > 0
    /\ \E i \in 1..Len(CHAINS) : DriftExceeds(i) /\ ~ValueDiffExceeds(i) /\ ~EmittedFor(i)
    /\ \E i \in 1..Len(CHAINS) : EmittedFor(i)

\* the holdings of a snapshot that sit at a registered WBTC address,
\* compared case-insensitively, whatever their label
AtWbtcAddress(tokens) ==
    {i \in 1..Len(tokens) :
        \E c \in {"ethereum", "arbitrum", "optimism", "base", "polygon", "solana"} :
            Lower(tokens[i].token) = Lower(RegAddr("WBTC", c))}

\* those of them on network c
AtWbtcAddressOn(tokens, c) ==
    {i \in 1..Len(tokens) : Lower(tokens[i].token) = Lower(RegAddr("WBTC", c))}

RECURSIVE SumValues(_, _)
SumValues(tokens, S) ==
    IF S = {} THEN 0
    ELSE LET i == CHOOSE x \in S : TRUE
         IN  tokens[i].value + SumValues(tokens, S \ {i})

\* C4: when the total value of the WBTC holdings of the snapshot is > 0, the
\* fractions analyze_chain_distribution returns sum to exactly 1.
C4_FractionsSumToOne ==
    (Analyzed /\ SumValues(updated_portfolio, AtWbtcAddress(updated_portfolio)) > 0) =>
        /\ current_distribution # <<>>
        /\ RatSum([i \in 1..Len(current_distribution) |-> current_distribution[i].v]) = RatOfInt(1)

\* C4 witness: four WBTC holdings, two of them on one network, three networks
C4_Witness ==
    /\ Analyzed
    /\ Len(updated_portfolio) = 4
    /\ Cardinality(AtWbtcAddress(updated_portfolio)) = 4
    /\ Len(current_distribution) = 3
    /\ SumValues(updated_portfolio, AtWbtcAddress(updated_portfolio)) > 0

\* C5: a WBTC holding with price 0 creates no entry in the returned mapping:
\* every network of the mapping has a priced WBTC holding.
C5_UnpricedExcluded ==
    Analyzed =>
        \A e \in 1..Len(current_distribution) :
            \E i \in AtWbtcAddressOn(updated_portfolio, current_distribution[e].k) :
                updated_portfolio[i].price # 0

\* a holding with a missing required field, a negative quantity, price or value
InvalidHolding(token_info) ==
    \/ ~ConvertKeysPresent(token_info)
    \/ token_info.amount < 0
    \/ token_info.price < 0
    \/ token_info.value < 0

\* C6: when a holding of the snapshot is invalid, convert_to_wbtc issues no
\* trade for any holding of the snapshot and does not return normally.
C6_InvalidSnapshotAborts ==
    (pc \in {"convert_loop", "converted", "failed"}
        /\ \E i \in 1..Len(portfolio) : InvalidHolding(portfolio[i])) =>
        /\ api_log = <<>>
        /\ pc # "converted"

\* a holding the conversion loop must attempt: not WBTC by label or by
\* address, value at least MIN_TRADE_VALUE, amount > 0
MustConvert(token_info) ==
    /\ SymbolOf(token_info) # "WBTC"
    /\ \A c \in {"ethereum", "arbitrum", "optimism", "base", "polygon", "solana"} :
          Lower(token_info.token) # Lower(RegAddr("WBTC", c))
    /\ token_info.value >= MIN_TRADE_VALUE
    /\ token_info.amount > 0

\* the increasing sequence of the indexes below n whose holding must be converted
RECURSIVE MustConvertBelow(_, _)
MustConvertBelow(tokens, n) ==
    IF n <= 1 THEN <<>>
    ELSE IF MustConvert(tokens[n - 1])
    THEN Append(MustConvertBelow(tokens, n - 1), n - 1)
    ELSE MustConvertBelow(tokens, n - 1)

\* the increasing sequence of the calls of api_log that succeeded
RECURSIVE SucceededCalls(_, _)
SucceededCalls(log, n) ==
    IF n = 0 THEN <<>>
    ELSE IF log[n].ok
    THEN Append(SucceededCalls(log, n - 1), n)
    ELSE SucceededCalls(log, n - 1)

\* C7: a failed execute_trade does not abort convert_to_wbtc: the holdings
\* attempted so far are exactly the eligible holdings passed so far, each
\* once and in snapshot order, whatever the outcome of earlier attempts; the
\* call raises only on a holding with a missing key; and trades_executed is
\* exactly the results of the successful attempts, in order.
C7_FailureDoesNotAbort ==
    pc \in {"convert_loop", "converted", "failed"} =>
        /\ [j \in 1..Len(api_log) |-> api_log[j].holding] = MustConvertBelow(portfolio, idx)
        /\ [j \in 1..Len(trades_executed) |-> trades_executed[j].call]
               = SucceededCalls(api_log, Len(api_log))
        /\ pc = "failed" => ~ConvertKeysPresent(portfolio[idx])
        /\ pc = "converted" => idx = Len(portfolio) + 1

\* C7 witness: the call returned after a failed attempt followed by a
\* successful one
C7_Witness ==
    /\ pc = "converted"
    /\ \E j, k \in 1..Len(api_log) : j < k /\ ~api_log[j].ok /\ api_log[k].ok
    /\ Len(trades_executed) >= 1

AllKeysPresent == \A i \in 1..Len(portfolio) : ConvertKeysPresent(portfolio[i])

\* C8: on a snapshot whose holdings carry token, amount and value,
\* convert_to_wbtc raises nothing and issues one trade per holding that is not
\* WBTC (by label or by address), is worth at least MIN_TRADE_VALUE and has
\* amount > 0, in snapshot order, for the full amount, from the holding's
\* address to the WBTC address on ethereum; no other holding is traded.
C8_TradesExactlyEligible ==
    (pc \in {"convert_loop", "converted", "failed"} /\ AllKeysPresent) =>
        /\ pc # "failed"
        /\ pc = "converted" =>
              /\ [j \in 1..Len(api_log) |-> api_log[j].holding]
                     = MustConvertBelow(portfolio, Len(portfolio) + 1)
              /\ \A j \in 1..Len(api_log) :
                    LET r == api_log[j].request
                        h == portfolio[api_log[j].holding]
                    IN  /\ r.fromToken = h.token
                        /\ r.amount = Str(h.amount)
                        /\ r.toToken = RegAddr("WBTC", "ethereum")
                        /\ r.toChain = "evm"
                        /\ r.toSpecificChain = "eth"

\* C8 witness: three holdings, the first and the third traded, the second
\* kept as WBTC by its label alone
C8_Witness ==
    /\ pc = "converted"
    /\ AllKeysPresent
    /\ Len(portfolio) = 3
    /\ [j \in 1..Len(api_log) |-> api_log[j].holding] = <<1, 3>>
    /\ portfolio[2].symbol = "WBTC" /\ portfolio[2].token = UNREGISTERED
    /\ portfolio[3].value = MIN_TRADE_VALUE

\* C9: analyze_chain_distribution counts a holding exactly when its address is
\* a registered WBTC address (case-insensitively), whatever its label: each
\* network's fraction is the value held at the network's WBTC address over
\* the value held at all WBTC addresses.
C9_SelectsByAddress ==
    Analyzed =>
        LET counted == AtWbtcAddress(updated_portfolio)
            total == SumValues(updated_portfolio, counted)
        IN  IF total > 0
            THEN /\ DictKeys(current_distribution)
                       = {c \in {"ethereum", "arbitrum", "optimism", "base", "polygon", "solana"} :
                              AtWbtcAddressOn(updated_portfolio, c) # {}}
                 /\ \A e \in 1..Len(current_distribution) :
                       current_distribution[e].v
                           = Rat(SumValues(updated_portfolio,
                                           AtWbtcAddressOn(updated_portfolio, current_distribution[e].k)),
                                 total)
            ELSE current_distribution = <<>>

\* C9 witness: a holding labelled WBTC at a USDC address is left out and a
\* holding labelled USDC at a lower-case WBTC address is counted
C9_Witness ==
    /\ Analyzed
    /\ \E i \in 1..Len(updated_portfolio) :
          /\ updated_portfolio[i].symbol = "WBTC"
          /\ updated_portfolio[i].token = RegAddr("USDC", "arbitrum")
    /\ \E i \in 1..Len(updated_portfolio) :
          /\ updated_portfolio[i].symbol = "USDC"
          /\ updated_portfolio[i].token = Lower(RegAddr("WBTC", "arbitrum"))
          /\ updated_portfolio[i].token # RegAddr("WBTC", "arbitrum")
    /\ DictKeys(current_distribution) = {"arbitrum", "ethereum"}

\* the position in Config.CHAINS of the entry an intent names
PolicyIndexOf(intent) ==
    CHOOSE i \in 1..Len(CHAINS) : CHAINS[i].specific_chain = intent.chain

\* C10: the intents calculate_rebalance_trades returns are in policy
\* declaration order, at most one per policy entry.
C10_PolicyOrder ==
    pc = "planned" =>
        /\ \A j \in 1..Len(trades_needed) :
              \E i \in 1..Len(CHAINS) : CHAINS[i].specific_chain = trades_needed[j].chain
        /\ \A j, k \in 1..Len(trades_needed) :
              j < k => PolicyIndexOf(trades_needed[j]) < PolicyIndexOf(trades_needed[k])

\* C10 witness: a plan of at least three intents that is sorted neither by
\* ascending nor by descending drift
C10_Witness ==
    /\ pc = "planned"
    /\ Len(trades_needed) >= 3
    /\ \E j, k \in 1..Len(trades_needed) :
          j < k /\ RatGt(trades_needed[j].drift, trades_needed[k].drift)
    /\ \E j, k \in 1..Len(trades_needed) :
          j < k /\ RatGt(trades_needed[k].drift, trades_needed[j].drift)

\* C11: every intent calculate_rebalance_trades emits for a policy entry
\* carries current_pct and target_pct of the entry, drift = |current_pct -
\* target_pct|, value_diff = (target_pct - current_pct) * total, and action
\* "buy" exactly when value_diff > 0 and "sell" exactly when value_diff < 0;
\* no emitted intent has value_diff = 0.
C11_IntentFields ==
    pc = "planned" =>
        \A j \in 1..Len(trades_needed) :
            LET intent == trades_needed[j]
                i == PolicyIndexOf(intent)
                c == DictGet(current_distribution, CHAINS[i].specific_chain, RatOfInt(0))
                t == CHAINS[i].target_allocation
            IN  /\ intent.current_pct = c
                /\ intent.target_pct = t
                /\ intent.drift.n * c.d * t.d = Abs(c.n * t.d - t.n * c.d) * intent.drift.d
                /\ intent.value_diff.n * c.d * t.d
                      = (t.n * c.d - c.n * t.d) * total_wbtc_value * intent.value_diff.d
                /\ intent.drift.d > 0 /\ intent.value_diff.d > 0
                /\ intent.action = "buy" <=> intent.value_diff.n > 0
                /\ intent.action = "sell" <=> intent.value_diff.n < 0
                /\ intent.value_diff.n # 0

\* C11 witness: a plan for a positive total that holds a buy for a network
\* below its target and a sell for a network above its target
C11_Witness ==
    /\ pc = "planned"
    /\ total_wbtc_value > 0
    /\ \E j, k \in 1..Len(trades_needed) :
          /\ trades_needed[j].action = "buy"
          /\ RatGt(trades_needed[j].target_pct, trades_needed[j].current_pct)
          /\ trades_needed[k].action = "sell"
          /\ RatGt(trades_needed[k].current_pct, trades_needed[k].target_pct)

\* C12: a snapshot with no holdings, or whose WBTC holdings are worth 0 in
\* total, is not an error: analyze_chain_distribution returns the empty mapping
\* for it, calculate_rebalance_trades on that mapping with total 0 returns the
\* empty plan, and the analysis only raises on a holding that lacks a field.
C12_EmptyPortfolio ==
    /\ (Analyzed /\ (\/ updated_portfolio = <<>>
                     \/ SumValues(updated_portfolio, AtWbtcAddress(updated_portfolio)) = 0)) =>
           /\ current_distribution = <<>>
           /\ calculate_rebalance_trades(current_distribution, 0) = <<>>
    /\ pc = "failed" =>
           \E i \in 1..Len(updated_portfolio) :
               ~HasKey(updated_portfolio[i], "token") \/ ~HasKey(updated_portfolio[i], "value")

\* C12 witness: a snapshot that holds WBTC on some network, worth 0 in total,
\* has been analysed and planned for
C12_Witness ==
    /\ pc = "planned"
    /\ AtWbtcAddress(updated_portfolio) # {}
    /\ SumValues(updated_portfolio, AtWbtcAddress(updated_portfolio)) = 0
    /\ current_distribution = <<>>
    /\ trades_needed = <<>>

\* C13: no two entries of TOKEN_ADDRESSES hold case-insensitively equal
\* addresses, and detect_token_and_chain called with the address of an entry
\* returns exactly the symbol and network of that entry, whatever the hint.
C13_UniqueResolution ==
    pc = "detected" =>
        /\ \A i, j \in 1..Len(TOKEN_ADDRESSES) :
               i # j => Lower(TOKEN_ADDRESSES[i].address) # Lower(TOKEN_ADDRESSES[j].address)
        /\ \A i \in 1..Len(TOKEN_ADDRESSES) :
               TOKEN_ADDRESSES[i].address = det_address =>
                   detected = <<TOKEN_ADDRESSES[i].symbol, TOKEN_ADDRESSES[i].chain>>


\* the hint names the EVM family / the Solana family and not the EVM one
EvmHint(h) == Truthy(h) /\ Contains(EVM, LowerStr(h))
SvmHint(h) == Truthy(h) /\ ~EvmHint(h) /\ (Contains(SVM, LowerStr(h)) \/ Contains(SOLANA, LowerStr(h)))

\* C14: detect_token_and_chain resolves the all-zero address to the native
\* coin of the hinted family: to (ETH, ethereum) under an EVM hint, and under
\* a hint naming the Solana family to a coin on solana, never to ETH or to an
\* EVM network.
C14_ZeroAddressNative ==
    (pc = "detected" /\ det_address = ZERO_ADDRESS) =>
        /\ EvmHint(det_hint) => detected = <<"ETH", "ethereum">>
        /\ SvmHint(det_hint) => detected[2] = "solana" /\ detected[1] # "ETH"


\* C15: for an address no registry entry holds and any hint, None and ""
\* included, detect_token_and_chain returns ("UNKNOWN", n): n is "ethereum"
\* if the lower-cased hint contains "evm", otherwise "solana" if it contains
\* "svm" or "solana", otherwise "unknown".
C15_UnknownFallback ==
    (pc = "detected"
        /\ \A i \in 1..Len(TOKEN_ADDRESSES) :
               Lower(TOKEN_ADDRESSES[i].address) # Lower(det_address)) =>
        /\ detected[1] = "UNKNOWN"
        /\ detected[2] = "ethereum" <=> EvmHint(det_hint)
        /\ detected[2] = "solana" <=> SvmHint(det_hint)
        /\ detected[2] = "unknown" <=> (~EvmHint(det_hint) /\ ~SvmHint(det_hint))
        /\ detected[2] \in {"ethereum", "solana", "unknown"}

\* C15 witness: an unregistered address is resolved under an upper-case EVM
\* hint to ("UNKNOWN", "ethereum")
C15_Witness ==
    /\ pc = "detected"
    /\ det_address = UNREGISTERED
    /\ det_hint = <<"E", "V", "M">>
    /\ detected = <<"UNKNOWN", "ethereum">>


\* C16: for an address other than the all-zero one that equals a registry
\* address case-insensitively, detect_token_and_chain returns the symbol and
\* network of the first entry, in declaration order, holding that address,
\* whatever the hint and the letter case of the argument.
C16_FirstMatchWins ==
    (pc = "detected"
        /\ det_address # ZERO_ADDRESS
        /\ \E i \in 1..Len(TOKEN_ADDRESSES) :
               Lower(TOKEN_ADDRESSES[i].address) = Lower(det_address)) =>
        \E i \in 1..Len(TOKEN_ADDRESSES) :
            /\ Lower(TOKEN_ADDRESSES[i].address) = Lower(det_address)
            /\ \A j \in 1..(i - 1) : Lower(TOKEN_ADDRESSES[j].address) # Lower(det_address)
            /\ detected = <<TOKEN_ADDRESSES[i].symbol, TOKEN_ADDRESSES[i].chain>>

\* C16 witness: the address registered for DAI on arbitrum and on optimism,
\* given in lower case under the hint "svm", resolves to (DAI, arbitrum)
C16_Witness ==
    /\ pc = "detected"
    /\ det_address = Lower(RegAddr("DAI", "optimism"))
    /\ det_address # RegAddr("DAI", "optimism")
    /\ det_hint = SVM
    /\ detected = <<"DAI", "arbitrum">>


\* the drift test of line 76 passes for policy entry i
DriftCheckPasses(i) ==
    RatGt(RebalanceEntry(CHAINS[i], current_distribution, total_wbtc_value).intent.drift,
          REBALANCE_THRESHOLD)

\* the value_diff line 79 computes for policy entry i
ValueDiffOf(i) ==
    RebalanceEntry(CHAINS[i], current_distribution, total_wbtc_value).intent.value_diff

\* C18 as stated: whenever the drift check passes for a policy entry, the
\* value_diff computed for the entry is not 0, for every total the function is
\* called with.
C18_AsStated ==
    pc = "planned" =>
        \A i \in 1..Len(CHAINS) : DriftCheckPasses(i) => ValueDiffOf(i).n # 0

\* C18: when calculate_rebalance_trades is called with a total other than 0,
\* whenever the drift check passes for a policy entry the value_diff computed
\* for the entry is not 0; with total 0 every value_diff is 0.
C18_NonZeroDelta ==
    pc = "planned" =>
        \A i \in 1..Len(CHAINS) :
            /\ (total_wbtc_value # 0 /\ DriftCheckPasses(i)) => ValueDiffOf(i).n # 0
            /\ total_wbtc_value = 0 => ValueDiffOf(i).n = 0

\* C18 witness: with a total other than 0 an entry passes the drift check and
\* its value_diff, though not 0, is dust, so that the entry is not emitted
C18_Witness ==
    /\ pc = "planned"
    /\ total_wbtc_value # 0
    /\ \E i \in 1..Len(CHAINS) :
          /\ DriftCheckPasses(i)
          /\ ValueDiffOf(i).n # 0
          /\ RatLe(RatAbs(ValueDiffOf(i)), RatOfInt(MIN_TRADE_VALUE))
          /\ ~EmittedFor(i)


\* C20: the total_wbtc_value run_strategy passes to calculate_rebalance_trades
\* equals the denominator analyze_chain_distribution used for the same
\* snapshot, so that every fraction of the mapping times total_wbtc_value is
\* the WBTC value held on that network.
C20_TotalIsDenominator ==
    (pc = "planned" /\ total_wbtc_value > 0) =>
        /\ total_wbtc_value = SumValues(updated_portfolio, AtWbtcAddress(updated_portfolio))
        /\ \A e \in 1..Len(current_distribution) :
               RatMulInt(current_distribution[e].v, total_wbtc_value)
                   = RatOfInt(SumValues(updated_portfolio,
                                        AtWbtcAddressOn(updated_portfolio, current_distribution[e].k)))


\* the calls run_strategy makes up to and including the fetch of the second
\* snapshot when some conversion succeeded, and when none did
CallsWithSettle == <<"get_enhanced_portfolio", "convert_to_wbtc", "sleep", "get_enhanced_portfolio">>
CallsWithoutSettle == <<"get_enhanced_portfolio", "convert_to_wbtc", "get_enhanced_portfolio">>

IsPrefix(s, t) == Len(s) <= Len(t) /\ SubSeq(t, 1, Len(s)) = s

\* the second snapshot has been fetched
SecondFetched ==
    Cardinality({k \in 1..Len(calls) : calls[k] = "get_enhanced_portfolio"}) = 2

Called(name) == \E k \in 1..Len(calls) : calls[k] = name

\* C19: in run_strategy the snapshot the plan is computed from is fetched only
\* after convert_to_wbtc has attempted every holding to convert, and after the
\* settle delay, taken exactly when some conversion succeeded; the analysis
\* and the total are those of that second snapshot, never of the first; and
\* calculate_rebalance_trades is called only with a total > 0.
C19_FreshSnapshotAfterConversion ==
    /\ SecondFetched =>
           /\ idx = Len(portfolio) + 1
           /\ {api_log[k].holding : k \in 1..Len(api_log)}
                  = {i \in 1..Len(portfolio) : Eligible(portfolio[i])}
           /\ IF \E k \in 1..Len(api_log) : api_log[k].ok
              THEN IsPrefix(CallsWithSettle, calls)
              ELSE IsPrefix(CallsWithoutSettle, calls)
    /\ (Called("analyze_chain_distribution") \/ Called("calculate_rebalance_trades")) =>
           SecondFetched
    /\ pc \in {"total", "step4", "planned", "step5", "done"} =>
           current_distribution = analyze_chain_distribution(updated_portfolio).value
    /\ pc \in {"step4", "planned", "step5", "done"} =>
           total_wbtc_value = TotalFrom(updated_portfolio, 1, 0).total
    /\ Called("calculate_rebalance_trades") => total_wbtc_value > 0
    /\ (pc \in {"planned", "step5", "done"} /\ total_wbtc_value > 0) =>
           Called("calculate_rebalance_trades")

\* C19 witness: a run in which one conversion succeeded and one failed, the
\* first snapshot held no WBTC, and the plan was computed, after the settle
\* delay, from a second snapshot that holds WBTC
C19_Witness ==
    /\ pc = "planned"
    /\ \E k \in 1..Len(api_log) : api_log[k].ok
    /\ \E k \in 1..Len(api_log) : ~api_log[k].ok
    /\ Called("sleep")
    /\ analyze_chain_distribution(portfolio).value = <<>>
    /\ current_distribution # <<>>
    /\ trades_needed # <<>>


\* the networks that are keys of the WBTC entry of the registry
WbtcNetworks ==
    {TOKEN_ADDRESSES[i].chain : i \in {j \in 1..Len(TOKEN_ADDRESSES) : TOKEN_ADDRESSES[j].symbol = "WBTC"}}

\* C21: an address analyze_chain_distribution counts (is_wbtc_address true) is
\* resolved by detect_token_and_chain, under any chain hint, to the symbol
\* WBTC and to a network of the WBTC registry entry whose address it is, never
\* to "unknown" or to a network of another symbol.
C21_CountedResolvesToWbtc ==
    (pc = "detected" /\ is_wbtc_address(det_address)) =>
        /\ detected[1] = "WBTC"
        /\ detected[2] \in WbtcNetworks
        /\ detected[2] # "unknown"
        /\ Lower(RegAddr("WBTC", detected[2])) = Lower(det_address)

\* C21 witness: the arbitrum WBTC address in upper case, under the hint
\* "svm", is counted and resolves to (WBTC, arbitrum)
C21_Witness ==
    /\ pc = "detected"
    /\ det_address \in DOMAIN LowerTable
    /\ det_address # RegAddr("WBTC", "arbitrum")
    /\ Lower(det_address) = Lower(RegAddr("WBTC", "arbitrum"))
    /\ det_hint = SVM
    /\ is_wbtc_address(det_address)
    /\ detected = <<"WBTC", "arbitrum">>


====
